---- MODULE Spec2Model ----
(***************************************************************************)
(* Forest temperature monitor: the simulated reading generator of           *)
(* utils/data_fetcher.py and the session state (last refresh, per-forest    *)
(* rolling history, current reading) that app.py keeps across reruns.       *)
(*                                                                          *)
(* Units.  Coordinates are integers in 1e-4 degree (the registry has four   *)
(* decimals), temperatures, wind speeds and temp changes are integers in    *)
(* tenths (the code rounds them to one decimal), humidity is an integer     *)
(* percent, times are integer minutes.  Intermediate values of the          *)
(* generator are integers in 1/Unit.                                        *)
(***************************************************************************)
EXTENDS Integers, Sequences, FiniteSets, TLC

VARIABLES
    now,               \* wall clock, minutes since midnight of day 0
    selected_forest,   \* sidebar selectbox value of the last run
    refresh_interval,  \* sidebar slider value of the last run (minutes)
    session_state,     \* st.session_state: <<>> before the first run
    refresh_button,    \* "Refresh Data Now" was pressed to start the last run
    refreshed,         \* the last run took the refresh branch (app.py:100)
    history_data,      \* what the last run handed to the chart (app.py:215-216)
    error,             \* exception raised by the last run, "none" if none
    gen_lat, gen_lon, gen_hour, gen_out,  \* one call of the generator
    store_ri,          \* the history store alone: the interval in force,
    store_n,           \*   the number of appends made so far,
    store_hist,        \*   the stored histories
    fetch_forest, fetch_hour, fetch_response,  \* one call of
    fetch_done, fetch_out,                     \*   fetch_weather_data
    danger_threshold,  \* the two threshold sliders alone: their values
    warning_threshold, \*   in the last run,
    slider_error,      \*   and the exception the warning slider raised
    display_temp,      \* the display alone: data['current_temp'] in tenths,
    metric_color,      \*   the delta_color of the temperature metric,
    alert_shown,       \*   the alert box under the metrics,
    marker_status      \*   and the status of the map marker

vars == <<now, selected_forest, refresh_interval, refresh_button,
          session_state, refreshed,
          history_data, error, gen_lat, gen_lon, gen_hour, gen_out,
          store_ri, store_n, store_hist,
          fetch_forest, fetch_hour, fetch_response, fetch_done, fetch_out,
          danger_threshold, warning_threshold, slider_error,
          display_temp, metric_color, alert_shown, marker_status>>

dashVars == <<now, selected_forest, refresh_interval, refresh_button,
              session_state, refreshed,
              history_data, error>>

genVars == <<gen_lat, gen_lon, gen_hour, gen_out>>

storeVars == <<store_ri, store_n, store_hist>>

fetchVars == <<fetch_forest, fetch_hour, fetch_response, fetch_done, fetch_out>>

thresholdVars == <<danger_threshold, warning_threshold, slider_error>>

displayVars == <<display_temp, metric_color, alert_shown, marker_status>>

----------------------------------------------------------------------------
(* Bounds of the model *)

\* minute of the day-0 clock at which the session starts (14:00)
StartMinute == 840

\* the clock stops advancing this many minutes after the start
Horizon == 60

\* a run that refreshes the default forest is only taken while that forest
\* holds at most this many entries
MaxDefaultLen == 26

\* the same for every other forest
MaxOtherLen == 2

\* number of appends made to the history store alone
MaxAppends == 290

----------------------------------------------------------------------------
(* Arithmetic *)

CoordUnit == 10000

Unit == 60000

Abs(x) == IF x < 0 THEN -x ELSE x

Min(a, b) == IF a < b THEN a ELSE b

Max(a, b) == IF a > b THEN a ELSE b

\* Python round(): nearest integer to n/d (d > 0), a tie goes to the even one
Round(n, d) ==
    LET q == n \div d
        r == n % d
    IN  IF 2 * r < d THEN q
        ELSE IF 2 * r > d THEN q + 1
        ELSE IF q % 2 = 0 THEN q ELSE q + 1

----------------------------------------------------------------------------
(* utils/data_fetcher.py *)

forest_locations ==
    ("Yosemite National Forest" :> <<378651, -1195383>>) @@
    ("Sequoia National Forest" :> <<364864, -1185658>>) @@
    ("Redwood National Forest" :> <<412132, -1240046>>) @@
    ("Black Forest, Germany" :> <<482647, 82735>>) @@
    ("Amazon Rainforest, Brazil" :> <<-34653, -622159>>) @@
    ("Daintree Rainforest, Australia" :> <<-162500, 1452500>>) @@
    ("Sherwood Forest, UK" :> <<532054, -10661>>) @@
    ("Bialowieza Forest, Poland" :> <<527333, 238667>>) @@
    ("Sundarbans Forest, Bangladesh" :> <<219497, 891833>>) @@
    ("Kakamega Forest, Kenya" :> <<2799, 348875>>)

\* get_forest_locations of temp_export/utils/data_fetcher.py
export_forest_locations ==
    ("Jim Corbett National Park, India" :> <<295300, 787742>>) @@
    ("Nagarhole National Park, India" :> <<120438, 761440>>) @@
    ("Bandipur National Park, India" :> <<116720, 766350>>) @@
    ("Kaziranga National Park, India" :> <<265789, 931700>>) @@
    ("Sundarbans, India" :> <<219497, 889000>>)

\* variant: the factor 0.5 is left out
base_temp_NoHalf(lat) == 30 * Unit - Abs(lat) * (Unit \div CoordUnit)

\* variant: the sign of the latitude is kept
base_temp_NoAbs(lat) == 30 * Unit - lat * (Unit \div (2 * CoordUnit))

\* base_temp = 30 - abs(lat) * 0.5, in 1/Unit degrees
base_temp(lat) == 30 * Unit - Abs(lat) * (Unit \div (2 * CoordUnit))

\* variant: the peak is put at noon
time_factor_Noon(hour) == Abs(hour - 12) * (Unit \div 12)

\* time_factor = abs((hour - 14) / 12), in 1/Unit
time_factor(hour) == Abs(hour - 14) * (Unit \div 12)

\* temp_adjustment = -8 + (16 * (1 - time_factor)), in 1/Unit degrees
temp_adjustment(hour) == -8 * Unit + 16 * (Unit - time_factor(hour))

\* round(base_temp + temp_adjustment, 1), in tenths
raw_temp(lat, hour) == Round(10 * (base_temp(lat) + temp_adjustment(hour)), Unit)

\* variant: the lower bound is not applied
clamp_temp_NoLower(t) == Min(t, 450)

\* max(min(current_temp, 45), -10), in tenths
clamp_temp(t) == Max(Min(t, 450), -100)

\* variant: the latitude term is subtracted
humidity_base_Dry(lat) == 60 * Unit - (90 * CoordUnit - Abs(lat)) * (Unit \div (2 * CoordUnit))

\* humidity_base = 60 + (90 - abs(lat)) * 0.5, in 1/Unit percent
humidity_base(lat) == 60 * Unit + (90 * CoordUnit - Abs(lat)) * (Unit \div (2 * CoordUnit))

\* variant: the upper bound is not applied
clamp_humidity_NoUpper(h) == Max(30, h)

\* min(95, max(30, round(humidity_base)))
clamp_humidity(h) == Min(95, Max(30, h))

\* variant: the sign of the longitude is kept
wind_base_Signed(lon) == lon % (10 * CoordUnit)

\* wind_base = abs(lon) % 10, in 1e-4
wind_base(lon) == Abs(lon) % (10 * CoordUnit)

\* round(wind_base + 2, 1), in tenths
wind_speed(lon) == Round(wind_base(lon) + 2 * CoordUnit, CoordUnit \div 10)

\* round((hour % 3 - 1) * 0.8, 1), in tenths
temp_change(hour) == ((hour % 3) - 1) * 8

_generate_fallback_data(lat, lon, hour) ==
    [current_temp |-> clamp_temp(raw_temp(lat, hour)),
     humidity     |-> clamp_humidity(Round(humidity_base(lat), Unit)),
     wind_speed   |-> wind_speed(lon),
     temp_change  |-> temp_change(hour)]

\* the keys the code reads from the payload: data['main']['temp'],
\* data['main']['humidity'], data['wind']['speed']
PayloadPaths == {"main", "main.temp", "main.humidity", "wind", "wind.speed"}

\* status codes the API is sampled with
StatusCodes == {200, 401, 500}

\* what requests.get can do: raise (transport error, timeout), or answer with
\* a status code and a body that is JSON or not and holds some of the keys
ApiResponses ==
    { [kind |-> "exception"] } \cup
    { [kind |-> "http", status |-> c, json |-> j, keys |-> K] :
          c \in StatusCodes, j \in BOOLEAN, K \in SUBSET PayloadPaths }

\* the values of a payload that holds every key, in tenths and percent
LiveSample == [temp |-> 251, humidity |-> 40, wind |-> 31]

\* the responses the dashboard runs are explored with
DashResponses == { r \in ApiResponses : r.kind = "exception" }

\* values of round(random.uniform(-1.5, 1.5), 1), in tenths
RandomChanges == -15 .. 15

\* an exception is raised inside the try block
RaisesInTry(response) ==
    \/ response.kind = "exception"
    \/ /\ response.kind = "http"
       /\ response.status = 200
       /\ ~response.json \/ ~(PayloadPaths \subseteq response.keys)

\* variant: the else branch of the status test is missing, the function
\* falls off its end
fetch_weather_data_NoElse(lat, lon, hour, response, rnd) ==
    IF RaisesInTry(response)
    THEN _generate_fallback_data(lat, lon, hour)
    ELSE IF response.status = 200
    THEN [current_temp |-> LiveSample.temp,
          humidity     |-> LiveSample.humidity,
          wind_speed   |-> LiveSample.wind,
          temp_change  |-> rnd]
    ELSE <<>>

fetch_weather_data(lat, lon, hour, response, rnd) ==
    IF RaisesInTry(response)
    THEN _generate_fallback_data(lat, lon, hour)
    ELSE IF response.status = 200
    THEN [current_temp |-> LiveSample.temp,
          humidity     |-> LiveSample.humidity,
          wind_speed   |-> LiveSample.wind,
          temp_change  |-> rnd]
    ELSE _generate_fallback_data(lat, lon, hour)

----------------------------------------------------------------------------
(* app.py: one run of the script *)

NoData == <<>>

\* options of the forest selectbox the runs are explored with
ForestOptions == {"Yosemite National Forest", "Daintree Rainforest, Australia"}

DefaultForest == "Yosemite National Forest"

\* values of the refresh slider: min 5, max 60, step 5
IntervalOptions == { 5 * k : k \in 1 .. 12 }

\* the slider values the runs are explored with
DashIntervals == { ri \in IntervalOptions : ri \in {15, 55, 60} }

DefaultInterval == 15

\* minutes that pass between two runs
Steps == {0, 60}

\* datetime.now().hour
HourOf(t) == (t \div 60) % 24

\* variant: the quotient is rounded up
max_history_Ceil(ri) == (24 * 60 + ri - 1) \div ri

\* max_history = int(24 * 60 / refresh_interval)
max_history(ri) == (24 * 60) \div ri

\* variant: the slice keeps the oldest entries, s[:n]
LastN_First(s, n) == IF n >= Len(s) THEN s ELSE SubSeq(s, 1, n)

\* Python's s[-n:]
LastN(s, n) == IF n = 0 \/ n >= Len(s) THEN s ELSE SubSeq(s, Len(s) - n + 1, Len(s))

\* variant: every run clears the current reading
InitSessionState_Clear(ss, ri, t) ==
    IF "last_refresh" \notin DOMAIN ss
    THEN [last_refresh        |-> t - ri,
          temperature_history |-> <<>>,
          current_temp_data   |-> NoData]
    ELSE [ss EXCEPT !.current_temp_data = NoData]

\* variant: last_refresh starts at the time of the first run
InitSessionState_Now(ss, ri, t) ==
    IF "last_refresh" \notin DOMAIN ss
    THEN [last_refresh        |-> t,
          temperature_history |-> <<>>,
          current_temp_data   |-> NoData]
    ELSE ss

\* if 'last_refresh' not in st.session_state: ...
InitSessionState(ss, ri, t) ==
    IF "last_refresh" \notin DOMAIN ss
    THEN [last_refresh        |-> t - ri,
          temperature_history |-> <<>>,
          current_temp_data   |-> NoData]
    ELSE ss

\* variant: the list of the selected forest is created in every run
InitHistory_Reset(th, sel) == (sel :> <<>>) @@ th

\* variant: the list of a new forest is not created
InitHistory_Skip(th, sel) == th

\* if selected_forest not in st.session_state.temperature_history: ...
InitHistory(th, sel) ==
    IF sel \notin DOMAIN th THEN th @@ (sel :> <<>>) ELSE th

\* variant: the button is ignored
time_diff_NoButton(ss, ri, pressed, t) == t - ss.last_refresh

\* time_diff after the force-refresh button
time_diff(ss, ri, pressed, t) ==
    IF pressed THEN ri ELSE t - ss.last_refresh

\* variant: humidity and wind speed are swapped
temp_entry_Swapped(t, weather_data) ==
    [timestamp   |-> t,
     temperature |-> weather_data.current_temp,
     humidity    |-> weather_data.wind_speed,
     wind_speed  |-> weather_data.humidity]

\* the entry built from the reading
temp_entry(t, weather_data) ==
    [timestamp   |-> t,
     temperature |-> weather_data.current_temp,
     humidity    |-> weather_data.humidity,
     wind_speed  |-> weather_data.wind_speed]

\* variant: the cap is never applied
TrimHistory_None(h, ri) == h

\* the cap applied after the append
TrimHistory(h, ri) ==
    IF Len(h) > max_history(ri) THEN LastN(h, max_history(ri)) ELSE h

\* variant: the cap is applied to the list of every forest
AppendHistory_TrimAll(th, sel, entry, ri) ==
    [f \in DOMAIN th |->
        TrimHistory(IF f = sel THEN Append(th[f], entry) ELSE th[f], ri)]

\* variant: the entry is put in front
AppendHistory_Prepend(th, sel, entry, ri) ==
    [th EXCEPT ![sel] = TrimHistory(<<entry>> \o th[sel], ri)]

\* variant: every forest shares one list
AppendHistory_Shared(th, sel, entry, ri) ==
    [f \in DOMAIN th |-> TrimHistory(Append(th[f], entry), ri)]

\* temperature_history[selected_forest].append(temp_entry) and the cap
AppendHistory(th, sel, entry, ri) ==
    [th EXCEPT ![sel] = TrimHistory(Append(th[sel], entry), ri)]

\* the refresh block; the append raises KeyError when the key is missing
RefreshData(ss, sel, ri, t, weather_data) ==
    IF weather_data # NoData
    THEN IF sel \in DOMAIN ss.temperature_history
         THEN [last_refresh        |-> t,
               temperature_history |->
                   AppendHistory(ss.temperature_history, sel,
                                 temp_entry(t, weather_data), ri),
               current_temp_data   |-> weather_data]
         ELSE [last_refresh        |-> t,
               temperature_history |-> ss.temperature_history,
               current_temp_data   |-> weather_data]
    ELSE [ss EXCEPT !.last_refresh = t]

\* the sequence handed to the chart, empty when the info box is shown
HistoryRead(th, sel) ==
    IF sel \in DOMAIN th /\ th[sel] # <<>> THEN th[sel] ELSE <<>>

\* bound on the stored length of a forest before a refreshing run
MaxLen(f) == IF f = DefaultForest THEN MaxDefaultLen ELSE MaxOtherLen

StoredLen(ss, f) ==
    IF "temperature_history" \in DOMAIN ss /\ f \in DOMAIN ss.temperature_history
    THEN Len(ss.temperature_history[f])
    ELSE 0

\* one run of app.py at time t with the given widget values
RunScript(sel, ri, pressed, t, response, rnd) ==
    LET ss0 == InitSessionState(session_state, ri, t)
        td  == time_diff(ss0, ri, pressed, t)
        ss1 == [ss0 EXCEPT !.temperature_history = InitHistory(@, sel)]
        loc == forest_locations[sel]
        wd  == fetch_weather_data(loc[1], loc[2], HourOf(t), response, rnd)
        doRefresh == td >= ri
        keyError  == doRefresh /\ wd # NoData
                     /\ sel \notin DOMAIN ss1.temperature_history
        ss2 == IF doRefresh THEN RefreshData(ss1, sel, ri, t, wd) ELSE ss1
    IN  /\ doRefresh => StoredLen(session_state, sel) <= MaxLen(sel)
        /\ now' = t
        /\ selected_forest' = sel
        /\ refresh_interval' = ri
        /\ refresh_button' = pressed
        /\ session_state' = ss2
        /\ refreshed' = doRefresh
        /\ error' = IF keyError THEN "KeyError" ELSE "none"
        /\ history_data' = IF keyError THEN <<>>
                           ELSE HistoryRead(ss2.temperature_history, sel)
        /\ UNCHANGED <<genVars, storeVars, fetchVars, thresholdVars,
                       displayVars>>

\* the first run of a session: every widget has its default value
FirstRun ==
    /\ "last_refresh" \notin DOMAIN session_state
    /\ \E response \in DashResponses :
          RunScript(DefaultForest, DefaultInterval, FALSE, now, response, 0)

\* a rerun: time has passed and the user may have moved a widget or pressed
\* the button
Rerun ==
    /\ "last_refresh" \in DOMAIN session_state
    /\ error = "none"
    /\ \E dt \in Steps, sel \in ForestOptions, ri \in DashIntervals,
          pressed \in BOOLEAN, response \in DashResponses :
          /\ now + dt <= StartMinute + Horizon
          /\ RunScript(sel, ri, pressed, now + dt, response, 0)

DashIdle ==
    /\ now = StartMinute
    /\ selected_forest = DefaultForest
    /\ refresh_interval = DefaultInterval
    /\ refresh_button = FALSE
    /\ session_state = <<>>
    /\ refreshed = FALSE
    /\ history_data = <<>>
    /\ error = "none"

GenIdle == gen_lat = 0 /\ gen_lon = 0 /\ gen_hour = 0 /\ gen_out = NoData

StoreIdle == store_ri = DefaultInterval /\ store_n = 0 /\ store_hist = <<>>

FetchIdle ==
    /\ fetch_forest = DefaultForest
    /\ fetch_hour = 0
    /\ fetch_response = [kind |-> "exception"]
    /\ fetch_done = FALSE
    /\ fetch_out = NoData

\* the sliders of the first run: value=35 and value=30
ThresholdIdle ==
    /\ danger_threshold = 35
    /\ warning_threshold = 30
    /\ slider_error = "none"

\* nothing has been drawn yet
DisplayIdle ==
    /\ display_temp = 0
    /\ metric_color = "unset"
    /\ alert_shown = "unset"
    /\ marker_status = "unset"

Init ==
    /\ DashIdle /\ GenIdle /\ StoreIdle /\ FetchIdle /\ ThresholdIdle
    /\ DisplayIdle

Next == FirstRun \/ Rerun

Spec == Init /\ [][Next]_vars

----------------------------------------------------------------------------
(* The generator alone: one call for every sampled latitude, longitude, hour *)

\* whole degrees of [-90, 90] and the latitudes of the two registries
GenLats ==
    { d * CoordUnit : d \in -90 .. 90 } \cup
    { forest_locations[f][1] : f \in DOMAIN forest_locations } \cup
    { export_forest_locations[f][1] : f \in DOMAIN export_forest_locations }

\* the longitudes of the two registries, 0, +-180, and values next to a
\* multiple of 10
GenLons ==
    { forest_locations[f][2] : f \in DOMAIN forest_locations } \cup
    { export_forest_locations[f][2] : f \in DOMAIN export_forest_locations } \cup
    { 0, 2500, 99600, -99600, 1800000, -1800000 }

InitGen ==
    /\ DashIdle /\ StoreIdle /\ FetchIdle /\ ThresholdIdle /\ DisplayIdle
    /\ gen_lat \in GenLats
    /\ gen_lon \in GenLons
    /\ gen_hour \in 0 .. 23
    /\ gen_out = NoData

Generate ==
    /\ gen_out = NoData
    /\ gen_out' = _generate_fallback_data(gen_lat, gen_lon, gen_hour)
    /\ UNCHANGED <<gen_lat, gen_lon, gen_hour, dashVars, storeVars, fetchVars,
                   thresholdVars, displayVars>>

NextGen == Generate

SpecGen == InitGen /\ [][NextGen]_vars

----------------------------------------------------------------------------
(* The history store alone: forced refreshes of one forest, one per minute,  *)
(* under a fixed slider value                                                *)

\* the entry of the k-th append
StoreEntry(k) ==
    LET loc == forest_locations[DefaultForest]
        t   == StartMinute + k
    IN  temp_entry(t, _generate_fallback_data(loc[1], loc[2], HourOf(t)))

InitStore ==
    /\ DashIdle /\ GenIdle /\ FetchIdle /\ ThresholdIdle /\ DisplayIdle
    /\ store_ri \in IntervalOptions
    /\ store_n = 0
    /\ store_hist = <<>>

StoreAppend ==
    /\ store_n < MaxAppends
    /\ store_n' = store_n + 1
    /\ store_hist' = AppendHistory(InitHistory(store_hist, DefaultForest),
                                   DefaultForest, StoreEntry(store_n + 1),
                                   store_ri)
    /\ UNCHANGED <<store_ri, dashVars, genVars, fetchVars, thresholdVars,
                   displayVars>>

NextStore == StoreAppend

SpecStore == InitStore /\ [][NextStore]_vars

----------------------------------------------------------------------------
(* fetch_weather_data alone: one call for every forest, hour and response *)

InitFetch ==
    /\ DashIdle /\ GenIdle /\ StoreIdle /\ ThresholdIdle /\ DisplayIdle
    /\ fetch_forest \in DOMAIN forest_locations
    /\ fetch_hour \in 0 .. 23
    /\ fetch_response \in ApiResponses
    /\ fetch_done = FALSE
    /\ fetch_out = NoData

Fetch ==
    /\ ~fetch_done
    /\ fetch_done' = TRUE
    /\ \E rnd \in RandomChanges :
          fetch_out' = fetch_weather_data(forest_locations[fetch_forest][1],
                                          forest_locations[fetch_forest][2],
                                          fetch_hour, fetch_response, rnd)
    /\ UNCHANGED <<fetch_forest, fetch_hour, fetch_response,
                   dashVars, genVars, storeVars, thresholdVars,
                   displayVars>>

NextFetch == Fetch

SpecFetch == InitFetch /\ [][NextFetch]_vars

----------------------------------------------------------------------------
(* The two threshold sliders alone: reruns in which the user moves them *)

\* values of the danger slider: min_value=25, max_value=45
DangerOptions == 25 .. 45

\* st.slider accepts value when min_value <= value <= max_value
SliderValueInBounds(min_value, max_value, value) ==
    min_value <= value /\ value <= max_value

\* the positions st.slider offers once its bounds are made to include value
SliderRange(min_value, max_value, value) ==
    Min(min_value, value) .. Max(max_value, value)

\* warning_threshold = st.sidebar.slider(min_value=20,
\* max_value=danger_threshold-1, value=30).  When 30 lies above the maximum
\* the widget either widens its bounds to hold 30 or rejects the call with
\* an exception, depending on the library version.
WarningSlider(danger) ==
    IF SliderValueInBounds(20, danger - 1, 30)
    THEN \E w \in 20 .. danger - 1 :
            warning_threshold' = w /\ slider_error' = "none"
    ELSE \/ \E w \in SliderRange(20, danger - 1, 30) :
               warning_threshold' = w /\ slider_error' = "none"
         \/ /\ warning_threshold' = warning_threshold
            /\ slider_error' = "StreamlitAPIException"

\* a rerun in which the sliders have been moved
SetThresholds ==
    /\ \E d \in DangerOptions :
          /\ danger_threshold' = d
          /\ WarningSlider(d)
    /\ UNCHANGED <<dashVars, genVars, storeVars, fetchVars, displayVars>>

InitThresholds == Init

NextThresholds == SetThresholds

SpecThresholds == InitThresholds /\ [][NextThresholds]_vars

----------------------------------------------------------------------------
(* The display alone: one run draws the metric, the alert and the map from  *)
(* a current reading and the two slider values                              *)

\* sampled values of data['current_temp'], in tenths of a degree
MinDisplayTemp == 150

MaxDisplayTemp == 500

DisplayTemps == MinDisplayTemp .. MaxDisplayTemp

\* temp_color: "normal" if temp < warning else "warning" if temp < danger
\* else "error"; the thresholds are whole degrees
temp_color(temperature, warning, danger) ==
    IF temperature < warning * 10 THEN "normal"
    ELSE IF temperature < danger * 10 THEN "warning"
    ELSE "error"

alert_Strict(temperature, warning, danger) ==
    IF temperature > danger * 10 THEN "DANGER"
    ELSE IF temperature > warning * 10 THEN "WARNING"
    ELSE "none"

\* the alert system: st.error("DANGER: ...") if temp >= danger,
\* elif temp >= warning st.warning("WARNING: ..."), else nothing
alert(temperature, warning, danger) ==
    IF temperature >= danger * 10 THEN "DANGER"
    ELSE IF temperature >= warning * 10 THEN "WARNING"
    ELSE "none"

\* create_plotly_map: the status of the marker
temp_status(temperature, warning, danger) ==
    IF temperature >= danger * 10 THEN "DANGER"
    ELSE IF temperature >= warning * 10 THEN "WARNING"
    ELSE "NORMAL"

\* the slider values a run can have: the danger slider's positions and,
\* for each, the positions of the warning slider
InitDisplay ==
    /\ DashIdle /\ GenIdle /\ StoreIdle /\ FetchIdle /\ DisplayIdle
    /\ danger_threshold \in DangerOptions
    /\ warning_threshold \in SliderRange(20, danger_threshold - 1, 30)
    /\ slider_error = "none"

\* the two columns of a run that has a current reading
Display ==
    /\ alert_shown = "unset"
    /\ \E temperature \in DisplayTemps :
          /\ display_temp' = temperature
          /\ metric_color' =
                temp_color(temperature, warning_threshold, danger_threshold)
          /\ alert_shown' =
                alert(temperature, warning_threshold, danger_threshold)
          /\ marker_status' =
                temp_status(temperature, warning_threshold, danger_threshold)
    /\ UNCHANGED <<dashVars, genVars, storeVars, fetchVars, thresholdVars>>

NextDisplay == Display

SpecDisplay == InitDisplay /\ [][NextDisplay]_vars

----------------------------------------------------------------------------
(* Properties *)

Initialized == "last_refresh" \in DOMAIN session_state

\* the stored histories, empty before the first run
History == IF Initialized THEN session_state.temperature_history ELSE <<>>

\* the sequence of the forest the store alone appends to
StoreSeq ==
    IF DefaultForest \in DOMAIN store_hist THEN store_hist[DefaultForest] ELSE <<>>

CeilDiv(a, b) == (a + b - 1) \div b

OtherForest == "Daintree Rainforest, Australia"

\* C1 as stated: in every reachable state every forest's history is no
\* longer than ceil(24*60 / refresh_interval) for the current slider value.
C1_LengthWithinCurrentCap ==
    \A f \in DOMAIN History :
        Len(History[f]) <= CeilDiv(24 * 60, refresh_interval)

\* C1 amended: right after a run that refreshed, the history of the selected
\* forest holds at most int(24*60 / refresh_interval) entries, that is
\* length * refresh_interval <= 24*60.
C1_LengthWithinCapAfterAppend ==
    refreshed =>
        /\ selected_forest \in DOMAIN History
        /\ Len(History[selected_forest]) * refresh_interval <= 24 * 60

\* the first entry of the session has been evicted from a full history
C1_Witness ==
    /\ refreshed
    /\ selected_forest = DefaultForest
    /\ refresh_interval = 60
    /\ Len(History[DefaultForest]) = 24
    /\ History[DefaultForest][1].timestamp > StartMinute

\* C2: under a fixed slider value, after max_history + 1 appends to one
\* forest the history holds exactly max_history entries, and they are the
\* appended entries 2 .. max_history + 1 in their original order.
C2_OldestEvictedFirst ==
    store_n = max_history(store_ri) + 1 =>
        StoreSeq = [i \in 1 .. max_history(store_ri) |-> StoreEntry(i + 1)]

C2_Witness ==
    /\ store_n = max_history(store_ri) + 1
    /\ store_ri = 5
    /\ Len(StoreSeq) = 288
    /\ StoreSeq[1] = StoreEntry(2)
    /\ StoreSeq[288] = StoreEntry(289)

\* C3 as stated: once entries have been evicted, the history holds
\* ceil(24*60 / refresh_interval) entries.
C3_CapIsCeil ==
    Len(StoreSeq) < store_n => Len(StoreSeq) = CeilDiv(24 * 60, store_ri)

\* C3 amended: for every slider value the history holds all appended entries
\* as long as their number c satisfies c * refresh_interval <= 24*60, and
\* once entries have been evicted it holds the largest such c, that is
\* floor(24*60 / refresh_interval).
C3_CapIsFloor ==
    LET c == Len(StoreSeq)
    IN  /\ c * store_ri <= 24 * 60
        /\ IF c < store_n THEN 24 * 60 < (c + 1) * store_ri ELSE c = store_n

C3_Witness ==
    /\ store_ri = 25
    /\ store_n = 58
    /\ Len(StoreSeq) = 57

\* C4: a run changes the stored sequence of a forest only if it refreshed
\* and that forest is the selected one, and the changed sequence is within
\* the cap of the slider value of that run; so moving the slider alone
\* truncates nothing.
C4_TrimOnlyOnAppend ==
    [][\A f \in DOMAIN History :
          /\ f \in DOMAIN History'
          /\ History'[f] # History[f] =>
                /\ refreshed'
                /\ f = selected_forest'
                /\ Len(History'[f]) * refresh_interval' <= 24 * 60]_vars

\* the slider was moved to 60 in a run that did not refresh, and the selected
\* forest still holds more than 24 entries
C4_Witness ==
    /\ Initialized
    /\ ~refreshed
    /\ refresh_interval = 60
    /\ selected_forest \in DOMAIN History
    /\ Len(History[selected_forest]) > 24

\* C5: a run that refreshed leaves the sequence of every forest other than
\* the selected one unchanged.
C5_Isolation ==
    [][refreshed' =>
          \A f \in DOMAIN History :
              f # selected_forest' =>
                  f \in DOMAIN History' /\ History'[f] = History[f]]_vars

\* an append to the default forest evicted while the other forest holds entries
C5_Witness ==
    /\ refreshed
    /\ selected_forest = DefaultForest
    /\ Len(History[DefaultForest]) = max_history(refresh_interval)
    /\ History[DefaultForest][1].timestamp > StartMinute
    /\ OtherForest \in DOMAIN History
    /\ Len(History[OtherForest]) > 0

\* C6: no run raises; a run that does not refresh while the selected forest
\* has no stored entry hands the empty sequence to the chart; and a run that
\* does not refresh leaves every stored sequence as it was.
C6_ReadTotalAndPure ==
    [][/\ error' = "none"
       /\ ~refreshed' /\ StoredLen(session_state, selected_forest') = 0 =>
              history_data' = <<>>
       /\ ~refreshed' =>
              \A f \in DOMAIN History :
                  f \in DOMAIN History' /\ History'[f] = History[f]]_vars

\* a forest that was never appended to is selected and read
C6_Witness ==
    /\ Initialized
    /\ ~refreshed
    /\ selected_forest = OtherForest
    /\ OtherForest \in DOMAIN History
    /\ History[OtherForest] = <<>>
    /\ history_data = <<>>
    /\ error = "none"

\* C7: for every latitude in [-90, 90], every longitude and every hour the
\* generated temperature is within [-10, 45] degrees.
C7_TemperatureInRange ==
    (gen_out # NoData /\ Abs(gen_lat) <= 90 * CoordUnit) =>
        (-100 <= gen_out.current_temp /\ gen_out.current_temp <= 450)

\* the lower bound was applied
C7_Witness ==
    /\ gen_out # NoData
    /\ Abs(gen_lat) = 90 * CoordUnit
    /\ raw_temp(gen_lat, gen_hour) < -100
    /\ gen_out.current_temp = -100

\* C8: for every latitude the generated humidity is within [30, 95] percent.
C8_HumidityInRange ==
    gen_out # NoData => (30 <= gen_out.humidity /\ gen_out.humidity <= 95)

\* the upper bound was applied
C8_Witness ==
    /\ gen_out # NoData
    /\ Round(humidity_base(gen_lat), Unit) > 95
    /\ gen_out.humidity = 95

\* C9: the generated wind speed is the tenth nearest to (|lon| mod 10) + 2,
\* it is the same for lon and -lon, lies in [2, 12], and is 2.0 at lon = 0.
C9_WindSpeed ==
    gen_out # NoData =>
        LET w  == gen_out.wind_speed
            a  == Abs(gen_lon)
            wb == a - (10 * CoordUnit) * (a \div (10 * CoordUnit))
        IN  /\ Abs(w * (CoordUnit \div 10) - (wb + 2 * CoordUnit)) * 2
                   <= CoordUnit \div 10
            /\ w = _generate_fallback_data(gen_lat, -gen_lon, gen_hour).wind_speed
            /\ 20 <= w /\ w <= 120
            /\ gen_lon = 0 => w = 20

\* a negative longitude of the registry: |-119.5383| mod 10 + 2 = 11.5383
C9_Witness ==
    /\ gen_out # NoData
    /\ gen_lon = -1195383
    /\ gen_out.wind_speed = 115

\* C10: at lat = 0, lon = 0, hour = 14 the generator returns temperature
\* 38.0, which the clamp leaves unchanged, humidity 95, which is the upper
\* bound applied to 105, and wind speed 2.0.
C10_EquatorAtPeak ==
    (gen_out # NoData /\ gen_lat = 0 /\ gen_lon = 0 /\ gen_hour = 14) =>
        /\ gen_out.current_temp = 380
        /\ raw_temp(gen_lat, gen_hour) = 380
        /\ gen_out.humidity = 95
        /\ Round(humidity_base(gen_lat), Unit) = 105
        /\ gen_out.wind_speed = 20

C10_Witness ==
    /\ gen_out # NoData
    /\ gen_lat = 0 /\ gen_lon = 0 /\ gen_hour = 14
    /\ gen_out.temp_change = 8

\* C11: at lat = 29.53, lon = 78.7742, hour = 2 the generator computes
\* time_factor 1.0, temp_adjustment -8 and base_temp 15.235, and returns the
\* temperature 7.2, the tenth nearest to 7.235.
C11_CorbettAtNight ==
    (gen_out # NoData /\ gen_lat = 295300 /\ gen_lon = 787742 /\ gen_hour = 2) =>
        /\ time_factor(gen_hour) = Unit
        /\ temp_adjustment(gen_hour) = -8 * Unit
        /\ 1000 * base_temp(gen_lat) = 15235 * Unit
        /\ 1000 * (base_temp(gen_lat) + temp_adjustment(gen_hour)) = 7235 * Unit
        /\ gen_out.current_temp = 72

C11_Witness ==
    /\ gen_out # NoData
    /\ <<gen_lat, gen_lon>> = export_forest_locations["Jim Corbett National Park, India"]
    /\ gen_hour = 2
    /\ gen_out.wind_speed = 108

\* C13: for every latitude the temperature before the clamp is, over the
\* hours 0..23, highest at hour 14 and lowest at hour 2.
C13_PeakAt14TroughAt2 ==
    gen_out # NoData =>
        LET pre(h) == base_temp(gen_lat) + temp_adjustment(h)
        IN  /\ pre(gen_hour) <= pre(14)
            /\ pre(gen_hour) >= pre(2)

\* C14: at a fixed hour, a latitude nearer to the equator gives a temperature
\* and a humidity that are at least those of a latitude farther from it.
C14_MonotoneInLatitude ==
    gen_out # NoData =>
        \A lat2 \in GenLats :
            Abs(gen_lat) <= Abs(lat2) =>
                LET far == _generate_fallback_data(lat2, gen_lon, gen_hour)
                IN  /\ gen_out.current_temp >= far.current_temp
                    /\ gen_out.humidity >= far.humidity

\* 30 degrees against 60 degrees at hour 14: 23.0 > 8.0 and 90 > 75
C14_Witness ==
    /\ gen_out # NoData
    /\ gen_lat = 30 * CoordUnit
    /\ gen_hour = 14
    /\ gen_out.current_temp = 230
    /\ gen_out.humidity = 90
    /\ _generate_fallback_data(-60 * CoordUnit, gen_lon, gen_hour).current_temp = 80
    /\ _generate_fallback_data(-60 * CoordUnit, gen_lon, gen_hour).humidity = 75

C16_RefreshGate ==
    [][LET elapsed == IF Initialized
                      THEN now' - session_state.last_refresh
                      ELSE refresh_interval'
       IN  /\ refreshed' <=> (elapsed >= refresh_interval' \/ refresh_button')
           /\ refreshed' =>
                  /\ session_state'.last_refresh = now'
                  /\ Len(History'[selected_forest'])
                         <= StoredLen(session_state, selected_forest') + 1
           /\ ~refreshed' /\ Initialized =>
                  session_state'.last_refresh = session_state.last_refresh
           /\ refreshed' /\ ~refresh_button' /\ Initialized =>
                  now' >= session_state.last_refresh + refresh_interval']_vars

\* a refresh that was not forced, an hour after the first one
C16_Witness ==
    /\ Initialized
    /\ refreshed
    /\ ~refresh_button
    /\ refresh_interval = 60
    /\ now = StartMinute + 60
    /\ session_state.last_refresh = now

\* C17: in every reachable configuration of the two threshold sliders the
\* warning slider is accepted and 20 <= warning_threshold < danger_threshold.
C17_WarningBelowDanger ==
    /\ slider_error = "none"
    /\ 20 <= warning_threshold
    /\ warning_threshold <= danger_threshold - 1

\* the stored sequence of a forest, empty when the forest has no list yet
Stored(f) == IF f \in DOMAIN History THEN History[f] ELSE <<>>

C19_Chronological ==
    \A f \in DOMAIN History :
        \A i \in 1 .. Len(History[f]) - 1 :
            History[f][i].timestamp <= History[f][i + 1].timestamp

\* a full history under the slider value 60 that holds entries of both hours
C19_Witness ==
    /\ refreshed
    /\ refresh_interval = 60
    /\ Len(Stored(selected_forest)) = 24
    /\ Stored(selected_forest)[1].timestamp = StartMinute
    /\ Stored(selected_forest)[2].timestamp = StartMinute + 60

\* C20: right after a run that refreshed, the last entry of the selected
\* forest has exactly the fields timestamp, temperature, humidity and
\* wind_speed, its timestamp is the time of the run and the new
\* last_refresh, and its three values are those of the stored current
\* reading.
C20_EntryMatchesReading ==
    refreshed =>
        LET h == Stored(selected_forest)
            e == h[Len(h)]
            r == session_state.current_temp_data
        IN  /\ h # <<>>
            /\ r # NoData
            /\ DOMAIN e = {"timestamp", "temperature", "humidity", "wind_speed"}
            /\ e.timestamp = now
            /\ session_state.last_refresh = now
            /\ e.temperature = r.current_temp
            /\ e.humidity = r.humidity
            /\ e.wind_speed = r.wind_speed

\* a refresh of the other forest in the second hour
C20_Witness ==
    /\ refreshed
    /\ selected_forest = OtherForest
    /\ now = StartMinute + 60
    /\ Len(Stored(OtherForest)) = 2
    /\ Stored(OtherForest)[2].timestamp = now
    /\ session_state.current_temp_data.temp_change = -8

----------------------------------------------------------------------------
\* the level a delta_color of the temperature metric stands for
LevelOfColor(c) ==
    CASE c = "error" -> "DANGER"
      [] c = "warning" -> "WARNING"
      [] c = "normal" -> "NORMAL"
      [] OTHER -> "unset"

\* the level an alert box stands for: no box is the normal level
LevelOfAlert(a) == IF a = "none" THEN "NORMAL" ELSE a

----------------------------------------------------------------------------
\* the reading the generator gives for forest f at the time of the last
\* refresh
ReadingOf(f) ==
    LET loc == forest_locations[f]
    IN  _generate_fallback_data(loc[1], loc[2],
                                HourOf(session_state.last_refresh))

\* C22: after any sequence of forest selections and runs, the current
\* reading shown under the heading of the selected forest is the reading
\* generated from the selected forest's coordinates.
C22_ReadingOfSelectedForest ==
    (Initialized /\ error = "none"
        /\ session_state.current_temp_data # NoData) =>
        session_state.current_temp_data = ReadingOf(selected_forest)

----------------------------------------------------------------------------
\* C23: the first run of a session refreshes, so after it the current
\* reading is set and the selected forest's history holds exactly one entry;
\* no run ends with the current reading unset (the state in which "No
\* temperature data available" is shown).
C23_FirstRunRefreshes ==
    [][/\ ~Initialized =>
              /\ refreshed'
              /\ session_state'.last_refresh = now'
              /\ session_state'.current_temp_data # NoData
              /\ Len(History'[selected_forest']) = 1
       /\ Initialized' => session_state'.current_temp_data # NoData]_vars

\* the state the first run ends in: one entry, stamped with the time of the
\* run, and the reading of the default forest
C23_Witness ==
    /\ Initialized
    /\ now = StartMinute
    /\ refreshed
    /\ ~refresh_button
    /\ Len(History[DefaultForest]) = 1
    /\ History[DefaultForest][1].timestamp = StartMinute
    /\ session_state.current_temp_data = ReadingOf(DefaultForest)

----------------------------------------------------------------------------
\* C24: a run that does not refresh leaves last_refresh, the current reading
\* and every stored history sequence as they were, whatever forest and
\* refresh interval it was started with (a forest selected for the first
\* time gets an empty sequence); last_refresh changes only in a run that
\* refreshes, and never decreases.
C24_NoRefreshFrame ==
    [][Initialized =>
          /\ ~refreshed' =>
                /\ session_state'.last_refresh = session_state.last_refresh
                /\ session_state'.current_temp_data
                       = session_state.current_temp_data
                /\ \A f \in DOMAIN History : History'[f] = History[f]
                /\ \A f \in DOMAIN History' \ DOMAIN History :
                       History'[f] = <<>>
          /\ session_state'.last_refresh # session_state.last_refresh =>
                refreshed'
          /\ session_state'.last_refresh >= session_state.last_refresh]_vars

\* a run that did not refresh although the forest and the interval were
\* changed: the reading and the entry of the first run are still there
C24_Witness ==
    /\ Initialized
    /\ ~refreshed
    /\ selected_forest = OtherForest
    /\ refresh_interval = 60
    /\ session_state.last_refresh = StartMinute
    /\ session_state.current_temp_data = ReadingOf(DefaultForest)
    /\ Len(History[DefaultForest]) = 1
    /\ History[OtherForest] = <<>>

----------------------------------------------------------------------------
\* C25: for every latitude in [-90, 90] and every hour 0..23 the rounded
\* temperature before the clamp is at most 38 and the rounded humidity
\* before the clamp is at least 60, so the upper bound 45 and the lower
\* bound 30 are never applied; the returned temperature is within [-10, 38]
\* and the returned humidity within [60, 95].
C25_InactiveBounds ==
    (gen_out # NoData /\ Abs(gen_lat) <= 90 * CoordUnit) =>
        /\ raw_temp(gen_lat, gen_hour) <= 380
        /\ Round(humidity_base(gen_lat), Unit) >= 60
        /\ gen_out.current_temp = Max(raw_temp(gen_lat, gen_hour), -100)
        /\ gen_out.humidity = Min(95, Round(humidity_base(gen_lat), Unit))
        /\ -100 <= gen_out.current_temp /\ gen_out.current_temp <= 380
        /\ 60 <= gen_out.humidity /\ gen_out.humidity <= 95

\* a pole at the warmest hour: the humidity is exactly 60 before and after
\* the clamp, the temperature -7.0
C25_Witness ==
    /\ gen_out # NoData
    /\ Abs(gen_lat) = 90 * CoordUnit
    /\ gen_hour = 14
    /\ Round(humidity_base(gen_lat), Unit) = 60
    /\ gen_out.humidity = 60
    /\ gen_out.current_temp = -70

====
